---------------------------- MODULE Spec2Model ----------------------------
(***************************************************************************)
(* The relational store declared by db/models.py: four tables (Race,      *)
(* Skill, Guild, Player), their unique columns, their foreign keys with    *)
(* the declared on_delete policies, the nullable / defaulted columns and   *)
(* the auto_now_add timestamp.  The operations are the ones the ORM        *)
(* derives from those declarations: objects.create (INSERT), save on a     *)
(* loaded instance (UPDATE of every column), delete (with the collector's  *)
(* propagation), objects.get by the unique natural key, and full_clean     *)
(* (the field validators; save never calls it).                            *)
(***************************************************************************)
EXTENDS Integers, Sequences, FiniteSets, TLC

VARIABLES races, skills, guilds, players, nextId, lastOp

vars == <<races, skills, guilds, players, nextId, lastOp>>

store == <<races, skills, guilds, players>>

-----------------------------------------------------------------------------
(* Bounds of the model. *)

\* rows ever inserted, over the four tables together, where the keys and the
\* references of the rows are what varies
MaxRows == 5
\* rows ever inserted, over the four tables together, where every field of
\* the rows varies and the rows are read back
MaxFieldRows == 3
\* the wall clock reads 0..MaxClock
MaxClock == 1

-----------------------------------------------------------------------------
(* Values. *)

\* SQL NULL / Python None in a text column.
Null == "<NULL>"
\* SQL NULL in a foreign-key column (the surrogate ids start at 1).
NullId == 0
\* A keyword argument the caller leaves out.
Omitted == "<omitted>"

\* the texts offered as name / nickname
Names == {"elf", "orc"}

Times == 0..MaxClock

\* Texts are sequences of characters where their format matters.
GoodEmail == <<"a", "@", "b", ".", "c">>
BadEmail == <<"a", "b", ".", "c">>
Emails == {GoodEmail, BadEmail}

Bios == {"bio"}
Bonuses == {"+1"}
Lore == "lore"

\* results of a write
Ok == "ok"
DuplicateKey == "DuplicateKey"
MissingReference == "MissingReference"
ValidationError == "ValidationError"
DoesNotExist == "DoesNotExist"
MultipleObjectsReturned == "MultipleObjectsReturned"

-----------------------------------------------------------------------------
(* Column declarations. *)

\* Race.description = TextField(blank=True): NOT NULL, and a string column
\* without a default is saved as the empty string when left out.
RaceDescription(given) == IF given = Omitted THEN "" ELSE given

\* null=True forgotten: a description left out is saved as the empty string
GuildDescriptionBlank(given) == IF given = Omitted THEN "" ELSE given

\* Guild.description = TextField(null=True): left out it is saved as NULL;
\* the empty string is a value of its own.
GuildDescription(given) == IF given = Omitted THEN Null ELSE given

\* unique=True on Race.name: another row of the table holds the row's name.
RaceNameTaken(rs, row) == \E r \in rs : r.name = row.name /\ r.id # row.id

\* the index taken over (name, race) instead of name
SkillNameTakenInRace(ss, row) ==
    \E s \in ss : s.name = row.name /\ s.race = row.race /\ s.id # row.id

\* unique=True on Skill.name: the index is over the whole table, whatever
\* the race of the rows.
SkillNameTaken(ss, row) == \E s \in ss : s.name = row.name /\ s.id # row.id

\* unique=True on Guild.name.
GuildNameTaken(gs, row) == \E g \in gs : g.name = row.name /\ g.id # row.id

\* unique=True on Player.nickname.
NicknameTaken(ps, row) ==
    \E p \in ps : p.nickname = row.nickname /\ p.id # row.id

\* db_constraint=False: only NOT NULL is left of the foreign key
RaceRefNotNull(rs, ref) == ref # NullId

\* ForeignKey(Race) without null=True: the column is NOT NULL and its value
\* must be the id of a row of race.
RaceRefOk(rs, ref) == ref # NullId /\ \E r \in rs : r.id = ref

\* db_constraint=False on the nullable foreign key: any value is accepted
GuildRefAny(gs, ref) == TRUE

\* ForeignKey(Guild, null=True): NULL is allowed, anything else must be the
\* id of a row of guild.
GuildRefOk(gs, ref) == ref = NullId \/ \E g \in gs : g.id = ref

\* on_delete=DO_NOTHING on Skill.race: the skills stay
SkillsKept(ss, r) == ss

\* on_delete=CASCADE on Skill.race: the skills that are left once race r goes.
SkillsAfterRaceDelete(ss, r) == {s \in ss : s.race # r}

\* the cascade stopping at the players that are in a guild
PlayersInGuildKept(ps, r) == {p \in ps : p.race # r \/ p.guild # NullId}

\* on_delete=CASCADE on Player.race: the players that are left once race r goes.
PlayersAfterRaceDelete(ps, r) == {p \in ps : p.race # r}

\* the UPDATE that clears Player.guild run without its WHERE
PlayersAllCleared(ps, g) == {[p EXCEPT !.guild = NullId] : p \in ps}

\* on_delete=CASCADE on Player.guild: the players of the guild go with it
PlayersOfGuildDeleted(ps, g) == {p \in ps : p.guild # g}

\* on_delete=SET_NULL on Player.guild: the players once guild g goes.
PlayersAfterGuildDelete(ps, g) ==
    {IF p.guild = g THEN [p EXCEPT !.guild = NullId] ELSE p : p \in ps}

\* auto_now=True instead of auto_now_add=True: every save stamps the clock
CreatedAtAutoNow(add, given, loaded, clock) == clock

\* DateTimeField(auto_now_add=True).pre_save: on the INSERT (add) the clock
\* replaces whatever the instance holds; on an UPDATE the instance's value
\* (the loaded one, or the one the caller assigned) is written as it is.
\* given is the set of the values the caller assigned: none or one.
CreatedAtPreSave(add, given, loaded, clock) ==
    IF add THEN clock
    ELSE IF given = {} THEN loaded ELSE CHOOSE t \in given : TRUE

\* a CharField in place of the EmailField: any text passes
EmailAnyText(e) == TRUE

\* EmailField's validator, run by full_clean only: one "@", a non-empty local
\* part, and a dotted domain with non-empty first and last labels.
EmailValid(e) ==
    LET ats == {i \in 1..Len(e) : e[i] = "@"}
    IN  /\ Cardinality(ats) = 1
        /\ LET at == CHOOSE i \in ats : TRUE
           IN  /\ at > 1
               /\ at + 1 < Len(e)
               /\ e[at + 1] # "."
               /\ e[Len(e)] # "."
               /\ \E j \in (at + 2)..(Len(e) - 1) : e[j] = "."

-----------------------------------------------------------------------------
(* Outcome of the constraints of one written row: NOT NULL and the unique  *)
(* index are checked as the row is written, the foreign keys after it.     *)

RaceWriteOutcome(rs, row) ==
    IF RaceNameTaken(rs, row) THEN DuplicateKey ELSE Ok

GuildWriteOutcome(gs, row) ==
    IF GuildNameTaken(gs, row) THEN DuplicateKey ELSE Ok

SkillWriteOutcome(ss, rs, row) ==
    IF row.race = NullId THEN MissingReference
    ELSE IF SkillNameTaken(ss, row) THEN DuplicateKey
    ELSE IF ~RaceRefOk(rs, row.race) THEN MissingReference
    ELSE Ok

PlayerWriteOutcome(ps, rs, gs, row) ==
    IF row.race = NullId THEN MissingReference
    ELSE IF NicknameTaken(ps, row) THEN DuplicateKey
    ELSE IF ~RaceRefOk(rs, row.race) \/ ~GuildRefOk(gs, row.guild)
         THEN MissingReference
    ELSE Ok

\* objects.get(<natural key>=key): the rows the query matches.
GetByName(rows, key) == {r \in rows : r.name = key}

GetByNickname(ps, key) == {p \in ps : p.nickname = key}

\* get() returns the only match, and raises when there is none or several.
GetResult(matches) ==
    IF matches = {} THEN DoesNotExist
    ELSE IF Cardinality(matches) > 1 THEN MultipleObjectsReturned
    ELSE Ok

\* the loaded instance: the row of the table with this primary key
Row(rows, id) == CHOOSE r \in rows : r.id = id

\* Model.full_clean() of a Player: clean_fields runs each field's
\* validators (EmailField's, and the foreign keys' check that the row they
\* name exists), validate_unique the unique checks; any failure is a
\* ValidationError.
PlayerValidation(ps, rs, gs, row) ==
    IF /\ EmailValid(row.email)
       /\ RaceRefOk(rs, row.race)
       /\ GuildRefOk(gs, row.guild)
       /\ ~NicknameTaken(ps, row)
    THEN Ok
    ELSE ValidationError

\* What the last operation was: its name, its result, the rows its
\* propagation reached (table, id, guild), the rows it returned, and whether
\* the caller assigned created_at.
Op(op, res) ==
    [op |-> op, res |-> res, hit |-> {}, rows |-> {}, stamp |-> FALSE]

\* rows inserted so far: every table numbers its rows from 1, without reuse
Inserted ==
    (nextId.race - 1) + (nextId.skill - 1) + (nextId.guild - 1) + (nextId.player - 1)

-----------------------------------------------------------------------------
Init ==
    /\ races = {}
    /\ skills = {}
    /\ guilds = {}
    /\ players = {}
    /\ nextId = [race |-> 1, skill |-> 1, guild |-> 1, player |-> 1]
    /\ lastOp = Op("init", Ok)

(* ---- Race ---- *)

\* Race.objects.create(name=..., description=...)
CreateRace(name, description) ==
    LET row == [id |-> nextId.race, name |-> name,
                description |-> RaceDescription(description)]
        out == RaceWriteOutcome(races, row)
    IN  /\ lastOp' = Op("CreateRace", out)
        /\ IF out = Ok
           THEN /\ races' = races \cup {row}
                /\ nextId' = [nextId EXCEPT !.race = @ + 1]
           ELSE UNCHANGED <<races, nextId>>
        /\ UNCHANGED <<skills, guilds, players>>

\* A loaded Race, one attribute assigned, then save(): every column of the
\* row is written.
UpdateRace(id, attr, value) ==
    /\ \E r \in races : r.id = id
    /\ LET row == [Row(races, id) EXCEPT ![attr] = value]
           out == RaceWriteOutcome(races, row)
       IN  /\ lastOp' = Op("UpdateRace", out)
           /\ IF out = Ok
              THEN races' = (races \ {Row(races, id)}) \cup {row}
              ELSE UNCHANGED races
    /\ UNCHANGED <<skills, guilds, players, nextId>>

\* delete() of a Race: the collector follows both CASCADE foreign keys
DeleteRace(id) ==
    /\ \E r \in races : r.id = id
    /\ races' = races \ {Row(races, id)}
    /\ skills' = SkillsAfterRaceDelete(skills, id)
    /\ players' = PlayersAfterRaceDelete(players, id)
    /\ lastOp' = [Op("DeleteRace", Ok) EXCEPT !.hit =
                    {<<"skill", s.id, NullId>> : s \in {x \in skills : x.race = id}}
                      \cup {<<"player", p.id, p.guild>> :
                                p \in {x \in players : x.race = id}}]
    /\ UNCHANGED <<guilds, nextId>>

\* Race.objects.get(name=...)
GetRace(name) ==
    /\ LET got == GetByName(races, name)
       IN  lastOp' = [Op("GetRace", GetResult(got)) EXCEPT !.rows = got]
    /\ UNCHANGED <<races, skills, guilds, players, nextId>>

(* ---- Skill ---- *)

\* Skill.objects.create(name=..., bonus=..., race_id=...)
CreateSkill(name, bonus, race) ==
    LET row == [id |-> nextId.skill, name |-> name, bonus |-> bonus, race |-> race]
        out == SkillWriteOutcome(skills, races, row)
    IN  /\ lastOp' = Op("CreateSkill", out)
        /\ IF out = Ok
           THEN /\ skills' = skills \cup {row}
                /\ nextId' = [nextId EXCEPT !.skill = @ + 1]
           ELSE UNCHANGED <<skills, nextId>>
        /\ UNCHANGED <<races, guilds, players>>

UpdateSkill(id, attr, value) ==
    /\ \E s \in skills : s.id = id
    /\ LET row == [Row(skills, id) EXCEPT ![attr] = value]
           out == SkillWriteOutcome(skills, races, row)
       IN  /\ lastOp' = Op("UpdateSkill", out)
           /\ IF out = Ok
              THEN skills' = (skills \ {Row(skills, id)}) \cup {row}
              ELSE UNCHANGED skills
    /\ UNCHANGED <<races, guilds, players, nextId>>

\* nothing references a Skill
DeleteSkill(id) ==
    /\ \E s \in skills : s.id = id
    /\ skills' = skills \ {Row(skills, id)}
    /\ lastOp' = Op("DeleteSkill", Ok)
    /\ UNCHANGED <<races, guilds, players, nextId>>

GetSkill(name) ==
    /\ LET got == GetByName(skills, name)
       IN  lastOp' = [Op("GetSkill", GetResult(got)) EXCEPT !.rows = got]
    /\ UNCHANGED <<races, skills, guilds, players, nextId>>

(* ---- Guild ---- *)

CreateGuild(name, description) ==
    LET row == [id |-> nextId.guild, name |-> name,
                description |-> GuildDescription(description)]
        out == GuildWriteOutcome(guilds, row)
    IN  /\ lastOp' = Op("CreateGuild", out)
        /\ IF out = Ok
           THEN /\ guilds' = guilds \cup {row}
                /\ nextId' = [nextId EXCEPT !.guild = @ + 1]
           ELSE UNCHANGED <<guilds, nextId>>
        /\ UNCHANGED <<races, skills, players>>

UpdateGuild(id, attr, value) ==
    /\ \E g \in guilds : g.id = id
    /\ LET row == [Row(guilds, id) EXCEPT ![attr] = value]
           out == GuildWriteOutcome(guilds, row)
       IN  /\ lastOp' = Op("UpdateGuild", out)
           /\ IF out = Ok
              THEN guilds' = (guilds \ {Row(guilds, id)}) \cup {row}
              ELSE UNCHANGED guilds
    /\ UNCHANGED <<races, skills, players, nextId>>

\* delete() of a Guild: the collector sets Player.guild to NULL
DeleteGuild(id) ==
    /\ \E g \in guilds : g.id = id
    /\ guilds' = guilds \ {Row(guilds, id)}
    /\ players' = PlayersAfterGuildDelete(players, id)
    /\ lastOp' = [Op("DeleteGuild", Ok) EXCEPT !.hit =
                    {<<"player", p.id, p.guild>> :
                         p \in {x \in players : x.guild = id}}]
    /\ UNCHANGED <<races, skills, nextId>>

GetGuild(name) ==
    /\ LET got == GetByName(guilds, name)
       IN  lastOp' = [Op("GetGuild", GetResult(got)) EXCEPT !.rows = got]
    /\ UNCHANGED <<races, skills, guilds, players, nextId>>

(* ---- Player ---- *)

\* Player.objects.create(nickname=..., email=..., bio=..., race_id=...,
\* guild_id=..., created_at=...) while the wall clock reads clock: no
\* validator runs, the constraints of the table decide, and pre_save stamps
\* created_at.
CreatePlayer(nick, email, bio, race, guild, created_at, clock) ==
    LET row == [id |-> nextId.player, nickname |-> nick, email |-> email,
                bio |-> bio, race |-> race, guild |-> guild,
                created_at |-> CreatedAtPreSave(TRUE, created_at, clock, clock)]
        out == PlayerWriteOutcome(players, races, guilds, row)
    IN  /\ lastOp' = [Op("CreatePlayer", out) EXCEPT !.stamp = (created_at # {})]
        /\ IF out = Ok
           THEN /\ players' = players \cup {row}
                /\ nextId' = [nextId EXCEPT !.player = @ + 1]
           ELSE UNCHANGED <<players, nextId>>
        /\ UNCHANGED <<races, skills, guilds>>

\* A loaded Player, one attribute assigned, then save() while the wall clock
\* reads clock: every column of the row is written, created_at as pre_save
\* returns it.
UpdatePlayer(id, attr, value, clock) ==
    /\ \E p \in players : p.id = id
    /\ LET old == Row(players, id)
           set == [old EXCEPT ![attr] = value]
           row == [set EXCEPT !.created_at =
                      CreatedAtPreSave(FALSE,
                          IF attr = "created_at" THEN {value} ELSE {},
                          old.created_at, clock)]
           out == PlayerWriteOutcome(players, races, guilds, row)
       IN  /\ lastOp' = [Op("UpdatePlayer", out)
                           EXCEPT !.stamp = (attr = "created_at")]
           /\ IF out = Ok
              THEN players' = (players \ {old}) \cup {row}
              ELSE UNCHANGED players
    /\ UNCHANGED <<races, skills, guilds, nextId>>

\* nothing references a Player
DeletePlayer(id) ==
    /\ \E p \in players : p.id = id
    /\ players' = players \ {Row(players, id)}
    /\ lastOp' = Op("DeletePlayer", Ok)
    /\ UNCHANGED <<races, skills, guilds, nextId>>

GetPlayer(nick) ==
    /\ LET got == GetByNickname(players, nick)
       IN  lastOp' = [Op("GetPlayer", GetResult(got)) EXCEPT !.rows = got]
    /\ UNCHANGED <<races, skills, guilds, players, nextId>>

\* Player(nickname=..., email=..., race_id=..., guild_id=...).full_clean():
\* the validators of the declared fields; it writes nothing.
FullCleanPlayer(nick, email, race, guild) ==
    /\ lastOp' = Op("FullCleanPlayer",
                    PlayerValidation(players, races, guilds,
                        [id |-> NullId, nickname |-> nick, email |-> email,
                         race |-> race, guild |-> guild]))
    /\ UNCHANGED <<races, skills, guilds, players, nextId>>

-----------------------------------------------------------------------------
(* The inputs the operations are tried with. *)

\* an id that names no row of the table: the lowest one, a deleted row's if
\* there is one and else the id the next row will get
Dangling(rows, next) == CHOOSE i \in 1..next :
    /\ \A r \in rows : r.id # i
    /\ \A j \in 1..(i - 1) : \E r \in rows : r.id = j
\* a foreign key as a caller gives it: NULL, the id of a row, or a dangling id
RaceRefs == {NullId, Dangling(races, nextId.race)} \cup {r.id : r \in races}
GuildRefs == {NullId, Dangling(guilds, nextId.guild)} \cup {g.id : g \in guilds}
\* created_at as the caller of create passes it: not at all, or some time
Assigned == {{}, {0}}

\* The keys and the references vary: the rows are created, renamed,
\* re-pointed and deleted; the other fields take one value each.
KeyUpdates == {"name"} \X Names
SkillKeyUpdates == KeyUpdates \cup ({"race"} \X RaceRefs)
PlayerKeyUpdates ==
    ({"nickname"} \X Names) \cup ({"race"} \X RaceRefs) \cup ({"guild"} \X GuildRefs)

Next ==
    \/ Inserted < MaxRows /\ \E n \in Names : CreateRace(n, Omitted)
    \/ Inserted < MaxRows /\ \E n \in Names, r \in RaceRefs : CreateSkill(n, "+1", r)
    \/ Inserted < MaxRows /\ \E n \in Names : CreateGuild(n, Omitted)
    \/ Inserted < MaxRows /\ \E n \in Names, r \in RaceRefs, g \in GuildRefs :
          CreatePlayer(n, GoodEmail, "bio", r, g, {}, 0)
    \/ \E r \in races, u \in KeyUpdates : UpdateRace(r.id, u[1], u[2])
    \/ \E r \in races : DeleteRace(r.id)
    \/ \E s \in skills, u \in SkillKeyUpdates : UpdateSkill(s.id, u[1], u[2])
    \/ \E s \in skills : DeleteSkill(s.id)
    \/ \E g \in guilds, u \in KeyUpdates : UpdateGuild(g.id, u[1], u[2])
    \/ \E g \in guilds : DeleteGuild(g.id)
    \/ \E p \in players, u \in PlayerKeyUpdates : UpdatePlayer(p.id, u[1], u[2], 0)
    \/ \E p \in players : DeletePlayer(p.id)

Spec == Init /\ [][Next]_vars

-----------------------------------------------------------------------------
(* Properties of the store.  A property of one operation is stated about   *)
(* the steps of that operation: the unprimed tables are the store before   *)
(* it, the primed ones the store after it, and lastOp' names the operation. *)

IdsOf(rows) == {r.id : r \in rows}
Resolves(rows, ref) == \E r \in rows : r.id = ref
Did(op) == lastOp'.op = op

\* C1: deleting Guild g leaves every Player that referenced g in the store,
\* with guild unset and every other field as it was; no Player is removed.
C1_GuildDeleteUnsetsGuild ==
    [][Did("DeleteGuild") =>
          \A g \in IdsOf(guilds) : DeleteGuild(g) =>
             /\ \A p \in players : p.guild = g =>
                   [id |-> p.id, nickname |-> p.nickname, email |-> p.email,
                    bio |-> p.bio, race |-> p.race, guild |-> NullId,
                    created_at |-> p.created_at] \in players'
             /\ IdsOf(players') = IdsOf(players)]_vars

C1_Witness ==
    /\ lastOp.op = "DeleteGuild"
    /\ lastOp.hit # {}
    /\ \A h \in lastOp.hit : \E p \in players : p.id = h[2] /\ p.guild = NullId

\* C2: right after Race r is deleted no Skill whose race was r is in the store.
C2_RaceDeleteDeletesSkills ==
    [][Did("DeleteRace") =>
          \A r \in IdsOf(races) : DeleteRace(r) =>
             /\ \A s \in skills' : s.race # r
             /\ \A s \in skills : s.race = r => s.id \notin IdsOf(skills')]_vars

C2_Witness ==
    /\ lastOp.op = "DeleteRace"
    /\ \E h \in lastOp.hit : h[1] = "skill" /\ h[2] \notin IdsOf(skills)

\* C3: right after Race r is deleted no Player that referenced r is in the
\* store, whether the Player had a guild or not.
C3_RaceDeleteDeletesPlayers ==
    [][Did("DeleteRace") =>
          \A r \in IdsOf(races) : DeleteRace(r) =>
             /\ \A p \in players' : p.race # r
             /\ \A p \in players : p.race = r => p.id \notin IdsOf(players')]_vars

C3_Witness ==
    /\ lastOp.op = "DeleteRace"
    /\ \E h \in lastOp.hit :
          h[1] = "player" /\ h[3] # NullId /\ h[2] \notin IdsOf(players)

\* C4: in every reachable state every Skill's race and every Player's race
\* is the id of a Race of the store, and every Player's guild is unset or the
\* id of a Guild of the store.
C4_ReferentialIntegrity ==
    /\ \A s \in skills : Resolves(races, s.race)
    /\ \A p \in players : Resolves(races, p.race)
    /\ \A p \in players : p.guild = NullId \/ Resolves(guilds, p.guild)

C4_Witness ==
    /\ lastOp.op = "DeleteRace"
    /\ skills # {}
    /\ \E p \in players : p.guild # NullId

NoTwoShareAKey ==
    /\ \A a, b \in races : a.name = b.name => a = b
    /\ \A a, b \in skills : a.name = b.name => a = b
    /\ \A a, b \in guilds : a.name = b.name => a = b
    /\ \A a, b \in players : a.nickname = b.nickname => a = b

\* C5: a create whose name (nickname) is the one of a row of the table fails
\* with DuplicateKey and leaves the store as it was, for each of the four
\* tables; no two rows of a table ever share their name (nickname), two
\* Skills of different Races included.
C5_UniqueKeys ==
    /\ []NoTwoShareAKey
    /\ [][/\ Did("CreateRace") =>
                \A n \in Names : (CreateRace(n, Omitted) /\ GetByName(races, n) # {}) =>
                   lastOp'.res = DuplicateKey /\ store' = store
          /\ Did("CreateGuild") =>
                \A n \in Names : (CreateGuild(n, Omitted) /\ GetByName(guilds, n) # {}) =>
                   lastOp'.res = DuplicateKey /\ store' = store
          /\ Did("CreateSkill") =>
                \A n \in Names, r \in RaceRefs :
                   (CreateSkill(n, "+1", r) /\ GetByName(skills, n) # {}) =>
                      /\ store' = store
                      /\ lastOp'.res # Ok
                      /\ r # NullId => lastOp'.res = DuplicateKey
          /\ Did("CreatePlayer") =>
                \A n \in Names, r \in RaceRefs, g \in GuildRefs :
                   (CreatePlayer(n, GoodEmail, "bio", r, g, {}, 0)
                       /\ GetByNickname(players, n) # {}) =>
                      /\ store' = store
                      /\ lastOp'.res # Ok
                      /\ r # NullId => lastOp'.res = DuplicateKey]_vars

C5_Witness ==
    /\ lastOp.op = "CreateSkill"
    /\ lastOp.res = DuplicateKey
    /\ Cardinality(races) = 2
    /\ skills # {}

\* C7: a create of a Skill or a Player whose race is absent or names no Race
\* of the store, and a create of a Player whose guild is set and names no
\* Guild of the store, fails and leaves the store as it was, with
\* MissingReference unless the key collides as well; a create of a Player
\* with a Race of the store, a free nickname and no guild succeeds.
C7_MissingReference ==
    [][/\ Did("CreateSkill") =>
             \A n \in Names, r \in RaceRefs :
                (CreateSkill(n, "+1", r) /\ ~Resolves(races, r)) =>
                   /\ store' = store
                   /\ lastOp'.res # Ok
                   /\ GetByName(skills, n) = {} => lastOp'.res = MissingReference
       /\ Did("CreatePlayer") =>
             \A n \in Names, r \in RaceRefs, g \in GuildRefs :
                (/\ CreatePlayer(n, GoodEmail, "bio", r, g, {}, 0)
                 /\ ~Resolves(races, r) \/ (g # NullId /\ ~Resolves(guilds, g))) =>
                   /\ store' = store
                   /\ lastOp'.res # Ok
                   /\ GetByNickname(players, n) = {} =>
                         lastOp'.res = MissingReference
       /\ Did("CreatePlayer") =>
             \A n \in Names, r \in RaceRefs :
                (/\ CreatePlayer(n, GoodEmail, "bio", r, NullId, {}, 0)
                 /\ Resolves(races, r)
                 /\ GetByNickname(players, n) = {}) =>
                   /\ lastOp'.res = Ok
                   /\ \E p \in players' :
                         p.nickname = n /\ p.race = r /\ p.guild = NullId]_vars

C7_Witness ==
    /\ lastOp.op = "CreatePlayer"
    /\ lastOp.res = MissingReference
    /\ nextId.guild > 1
    /\ guilds = {}
    /\ races # {}

\* C10: a delete reaches no further than its policy.  Deleting Race r leaves
\* the Guilds, the other Races and the Skills and Players of other Races as
\* they were; deleting Guild g leaves the Races, the Skills, the other Guilds
\* and the Players that did not reference g as they were; deleting a Player
\* or a Skill leaves every other row of the store as it was.
C10_DeleteFrame ==
    [][/\ Did("DeleteRace") =>
             \A r \in IdsOf(races) : DeleteRace(r) =>
                /\ guilds' = guilds
                /\ races' = {x \in races : x.id # r}
                /\ {s \in skills : s.race # r} \subseteq skills'
                /\ {p \in players : p.race # r} \subseteq players'
       /\ Did("DeleteGuild") =>
             \A g \in IdsOf(guilds) : DeleteGuild(g) =>
                /\ races' = races
                /\ skills' = skills
                /\ guilds' = {x \in guilds : x.id # g}
                /\ {p \in players : p.guild # g} \subseteq players'
       /\ Did("DeletePlayer") =>
             \A i \in IdsOf(players) : DeletePlayer(i) =>
                /\ races' = races /\ guilds' = guilds /\ skills' = skills
                /\ players' = {p \in players : p.id # i}
       /\ Did("DeleteSkill") =>
             \A i \in IdsOf(skills) : DeleteSkill(i) =>
                /\ races' = races /\ guilds' = guilds /\ players' = players
                /\ skills' = {s \in skills : s.id # i}]_vars

C10_Witness ==
    /\ lastOp.op = "DeleteGuild"
    /\ lastOp.hit # {}
    /\ \E p \in players : p.guild # NullId
    /\ guilds # {}

-----------------------------------------------------------------------------
\* Every field varies, the rows are read back and validated; the references
\* are given as the id of a row, and a guild also as NULL.
LiveRaces == IdsOf(races)
LiveGuilds == {NullId} \cup IdsOf(guilds)

RaceUpdates ==
    KeyUpdates \cup ({"description"} \X {"", Lore})
SkillUpdates ==
    KeyUpdates \cup ({"bonus"} \X Bonuses) \cup ({"race"} \X LiveRaces)
GuildUpdates ==
    KeyUpdates \cup ({"description"} \X {Null, ""})
PlayerUpdates ==
    ({"nickname"} \X Names) \cup ({"email"} \X Emails) \cup ({"bio"} \X Bios)
      \cup ({"race"} \X LiveRaces) \cup ({"guild"} \X LiveGuilds)
      \cup ({"created_at"} \X Times)

NextFields ==
    \/ Inserted < MaxFieldRows /\
          \E n \in Names, d \in {Omitted, Lore} : CreateRace(n, d)
    \/ Inserted < MaxFieldRows /\
          \E n \in Names, b \in Bonuses, r \in LiveRaces : CreateSkill(n, b, r)
    \/ Inserted < MaxFieldRows /\
          \E n \in Names, d \in {Omitted, ""} : CreateGuild(n, d)
    \/ Inserted < MaxFieldRows /\
          \E n \in Names, e \in Emails, b \in Bios, r \in LiveRaces,
             g \in LiveGuilds, c \in Assigned, t \in Times :
             CreatePlayer(n, e, b, r, g, c, t)
    \/ \E r \in races, u \in RaceUpdates : UpdateRace(r.id, u[1], u[2])
    \/ \E r \in races : DeleteRace(r.id)
    \/ \E n \in Names : GetRace(n)
    \/ \E s \in skills, u \in SkillUpdates : UpdateSkill(s.id, u[1], u[2])
    \/ \E s \in skills : DeleteSkill(s.id)
    \/ \E n \in Names : GetSkill(n)
    \/ \E g \in guilds, u \in GuildUpdates : UpdateGuild(g.id, u[1], u[2])
    \/ \E g \in guilds : DeleteGuild(g.id)
    \/ \E n \in Names : GetGuild(n)
    \/ \E p \in players, u \in PlayerUpdates :
          UpdatePlayer(p.id, u[1], u[2], MaxClock)
    \/ \E p \in players : DeletePlayer(p.id)
    \/ \E n \in Names : GetPlayer(n)
    \/ \E n \in Names, e \in Emails, r \in LiveRaces, g \in LiveGuilds :
          FullCleanPlayer(n, e, r, g)

SpecFields == Init /\ [][NextFields]_vars

-----------------------------------------------------------------------------
(* Properties of the fields. *)

\* C6, as the specification states it: a create of a Player with an invalid
\* email fails with ValidationError and commits no row.
C6_CreateRejectsInvalidEmail ==
    [][Did("CreatePlayer") =>
          \A n \in Names, b \in Bios, r \in LiveRaces, g \in LiveGuilds,
             c \in Assigned, t \in Times :
             CreatePlayer(n, BadEmail, b, r, g, c, t) =>
                lastOp'.res = ValidationError /\ players' = players]_vars

\* C6, amended: full_clean of a Player with an invalid email fails with
\* ValidationError and writes nothing; the create itself never fails with
\* ValidationError: with a free nickname, a Race of the store and a Guild of
\* the store or none it commits the row, the email as given and created_at
\* stamped, and it leaves the Players as they were only when a constraint of
\* the table rejects it.
C6_InvalidEmailRejectedByFullCleanOnly ==
    [][/\ Did("FullCleanPlayer") =>
             \A n \in Names, r \in LiveRaces, g \in LiveGuilds :
                FullCleanPlayer(n, BadEmail, r, g) =>
                   /\ lastOp'.res = ValidationError
                   /\ store' = store /\ nextId' = nextId
       /\ Did("CreatePlayer") =>
             \A n \in Names, b \in Bios, r \in LiveRaces, g \in LiveGuilds,
                c \in Assigned, t \in Times :
                CreatePlayer(n, BadEmail, b, r, g, c, t) =>
                   /\ lastOp'.res # ValidationError
                   /\ lastOp'.res # Ok => players' = players
                   /\ GetByNickname(players, n) = {} =>
                         /\ lastOp'.res = Ok
                         /\ players' = players \cup
                               {[id |-> nextId.player, nickname |-> n,
                                 email |-> BadEmail, bio |-> b, race |-> r,
                                 guild |-> g, created_at |-> t]}]_vars

C6_Witness ==
    /\ lastOp.op = "CreatePlayer"
    /\ lastOp.res = Ok
    /\ \E p \in players : p.id = nextId.player - 1 /\ p.email = BadEmail

\* C8, as the specification states it: whatever the operation, a Player that
\* stays in the store keeps the created_at it had.
C8_CreatedAtImmutable ==
    [][\A p \in players, q \in players' :
          p.id = q.id => q.created_at = p.created_at]_vars

\* C8, amended: created_at is stamped at the create with the reading of the
\* clock, whatever the caller passes, and every later operation that does not
\* assign it (an update of another field, the deletion of the Player's Guild
\* or of any other row, a read) leaves it as it was; an update that assigns
\* created_at overwrites it with the value assigned.
C8_CreatedAtKeptUnlessAssigned ==
    [][/\ Did("CreatePlayer") =>
             \A n \in Names, e \in Emails, b \in Bios, r \in LiveRaces,
                g \in LiveGuilds, c \in Assigned, t \in Times :
                (CreatePlayer(n, e, b, r, g, c, t) /\ lastOp'.res = Ok) =>
                   \E q \in players' : q.id = nextId.player /\ q.created_at = t
       /\ \A p \in players, q \in players' :
             p.id = q.id =>
                \/ q.created_at = p.created_at
                \/ \E v \in Times :
                      /\ UpdatePlayer(p.id, "created_at", v, MaxClock)
                      /\ q.created_at = v]_vars

C8_Witness ==
    /\ lastOp.op = "DeleteGuild"
    /\ lastOp.hit # {}
    /\ \A h \in lastOp.hit :
          \E p \in players : p.id = h[2] /\ p.guild = NullId /\ p.created_at = 0
    /\ nextId.player = 2

\* C9: a row read back by its natural key right after its create holds the
\* fields as they were written: a Race created without description reads
\* back with the empty text, a Guild created without description reads back
\* unset and one created with the empty text reads back with the empty text;
\* a read returns rows of the store, and a read of a Player that follows a
\* read of the same Player returns the same created_at.
C9_RoundTrip ==
    [][/\ Did("CreateRace") =>
             \A n \in Names, d \in {Omitted, Lore} :
                (CreateRace(n, d) /\ lastOp'.res = Ok) =>
                   GetByName(races', n) =
                      {[id |-> nextId.race, name |-> n,
                        description |-> IF d = Omitted THEN "" ELSE d]}
       /\ Did("CreateGuild") =>
             \A n \in Names, d \in {Omitted, ""} :
                (CreateGuild(n, d) /\ lastOp'.res = Ok) =>
                   GetByName(guilds', n) =
                      {[id |-> nextId.guild, name |-> n,
                        description |-> IF d = Omitted THEN Null ELSE d]}
       /\ Did("CreateSkill") =>
             \A n \in Names, b \in Bonuses, r \in LiveRaces :
                (CreateSkill(n, b, r) /\ lastOp'.res = Ok) =>
                   GetByName(skills', n) =
                      {[id |-> nextId.skill, name |-> n, bonus |-> b, race |-> r]}
       /\ Did("CreatePlayer") =>
             \A n \in Names, e \in Emails, b \in Bios, r \in LiveRaces,
                g \in LiveGuilds, c \in Assigned, t \in Times :
                (CreatePlayer(n, e, b, r, g, c, t) /\ lastOp'.res = Ok) =>
                   GetByNickname(players', n) =
                      {[id |-> nextId.player, nickname |-> n, email |-> e,
                        bio |-> b, race |-> r, guild |-> g, created_at |-> t]}
       /\ Did("GetRace") =>
             \A n \in Names : GetRace(n) => lastOp'.rows = {x \in races : x.name = n}
       /\ Did("GetSkill") =>
             \A n \in Names : GetSkill(n) => lastOp'.rows = {x \in skills : x.name = n}
       /\ Did("GetGuild") =>
             \A n \in Names : GetGuild(n) => lastOp'.rows = {x \in guilds : x.name = n}
       /\ Did("GetPlayer") =>
             \A n \in Names : GetPlayer(n) =>
                /\ lastOp'.rows = {x \in players : x.nickname = n}
                /\ lastOp.op = "GetPlayer" =>
                      \A a \in lastOp.rows, b \in lastOp'.rows :
                         a.nickname = b.nickname =>
                            a.created_at = b.created_at]_vars

C9_Witness ==
    /\ lastOp.op = "GetGuild"
    /\ lastOp.res = Ok
    /\ \E g \in lastOp.rows : g.description = Null
    /\ \E g \in guilds : g.description = ""

=============================================================================
